---- MODULE Spec2Model ----
(***************************************************************************)
(* Request signing and dispatch of the publitio Python SDK.                *)
(*                                                                         *)
(* The repository holds three variants of the client module:               *)
(*   "build"   src/build/lib/publitio/__init__.py   (version 1.3.0)        *)
(*   "pkg"     src/publitio/publitio.py                                    *)
(*   "legacy"  src/publitio.py                                             *)
(* A client is an instance of PublitioAPI of one of them.  A call builds   *)
(* the query parameters, hands one request to the HTTP library and turns   *)
(* the response into a return value or an exception.                       *)
(*                                                                         *)
(* Strings that the code concatenates, parses or formats are sequences of  *)
(* one-character strings; names (dict keys, exception names) are strings.  *)
(***************************************************************************)
EXTENDS Integers, Sequences, FiniteSets, TLC

VARIABLES
    mod,         \* which module the client was imported from
    self,        \* the client's fields: [key, secret]
    now,         \* the UTC clock, in seconds
    pc,          \* "idle" | "waiting" (request handed to the HTTP library) | "done"
                 \* (the call has returned or raised)
    op,          \* the operation of the current / last call
    locals,      \* the running call's frame: [payload, auth]; popped when it ends
    inflight,    \* requests handed to the HTTP library and not yet answered
    nRequests,   \* requests issued by the current / last call
    response,    \* the response the current / last call received
    jsonCalls,   \* invocations of response.json() by the current / last call
    outcome,     \* what the last call returned or raised
    lastAuth,    \* what _api_payload returned in the last finished signed call
    probe,       \* a status code handed to status_code_is_known
    probeKnown,  \* what status_code_is_known answered for it: "unasked", "yes", "no"
    urlCall      \* a call of replace_extension / _transformation_url:
                 \* [fn, filename, extension, options, result]

vars == <<mod, self, now, pc, op, locals, inflight, nRequests, response,
          jsonCalls, outcome, lastAuth, probe, probeKnown, urlCall>>

----------------------------------------------------------------------------
(* Bounds of the model *)

\* the clock starts here (seconds since the epoch) ...
StartTime == 1541203200
\* ... and ticks at most this many times
MaxTicks == 1
\* a caller's parameter map has at most this many keys
MaxParams == 1
\* a response body has at most this many characters
MaxBodyLen == 2
\* status codes handed to status_code_is_known are 0..MaxStatusCode
MaxStatusCode == 700
\* nonces are sampled this far from the ends of the generator's range
NonceSpread == 1

\* a filename has at most this many characters
MaxNameLen == 3
\* a transformation has at most this many options
MaxOptions == 2

----------------------------------------------------------------------------
(* Values *)

Modules == {"build", "pkg", "legacy"}

\* modules that define rest_request and transformed
RestModules == {"build", "pkg"}

EmptyMap == [k \in {} |-> <<>>]

\* dict.update: the entries of b written over those of a
Update(a, b) ==
    [k \in (DOMAIN a) \cup (DOMAIN b) |-> IF k \in DOMAIN b THEN b[k] ELSE a[k]]

DigitChars == <<"0", "1", "2", "3", "4", "5", "6", "7", "8", "9">>

RECURSIVE Str(_)
\* str(n) of a non-negative int: its decimal digits, most significant first
Str(n) == IF n < 10 THEN <<DigitChars[n + 1]>>
          ELSE Str(n \div 10) \o <<DigitChars[(n % 10) + 1]>>

\* hashlib.sha1(s.encode()).hexdigest(): the digest is kept symbolic, as the
\* digest of exactly the byte string s (no two inputs share a digest)
Sha1Hex(s) == <<"sha1(">> \o s \o <<")">>

----------------------------------------------------------------------------
(* Nonce, timestamp, signature, payload *)

\* the first nonce value of every generator
NonceMin == 10000000
\* secrets.randbelow(100000000 - 10000000) + 10000000  ("build")
NonceStopSecrets == 100000000
\* random.randrange(10000000, 99999999)  ("pkg", "legacy")
NonceStopRandrange == 99999999

\* randbelow with its upper end included
RandBelowInclusive(n) == 0 .. n

\* secrets.randbelow(n): an int in [0, n)
RandBelow(n) == 0 .. (n - 1)

\* random.randrange(a, b): an int in [a, b)
RandRange(a, b) == a .. (b - 1)

\* The integers sampled around both ends of the generators' ranges; the
\* generator of a module returns those of them that lie in its range.
NonceCandidates ==
    ((NonceMin - NonceSpread) .. (NonceMin + NonceSpread))
    \cup ((NonceStopRandrange - NonceSpread) .. (NonceStopSecrets + NonceSpread - 1))

\* the ints generate_nonce can draw in module m
NonceInts(m) ==
    IF m = "build"
    THEN {x \in NonceCandidates : (x - NonceMin) \in RandBelow(NonceStopSecrets - NonceMin)}
    ELSE {x \in NonceCandidates : x \in RandRange(NonceMin, NonceStopRandrange)}

\* generate_nonce(): the values one call can return
generate_nonce(m) == {Str(x) : x \in NonceInts(m)}

\* current_unix_timestamp() at clock value t
current_unix_timestamp(t) == Str(t)

\* the signature over nonce + timestamp + secret
generate_signature_swapped(s, timestamp, nonce) == Sha1Hex(nonce \o timestamp \o s.secret)

\* PublitioAPI._generate_signature / generate_signature
generate_signature(s, timestamp, nonce) == Sha1Hex(timestamp \o nonce \o s.secret)

\* 'python3-' + VERSION
VERSION == <<"1", ".", "3", ".", "0">>
ApiKit == <<"p", "y", "t", "h", "o", "n", "3", "-">> \o VERSION

AuthKeys == {"api_key", "api_timestamp", "api_nonce", "api_signature"}

\* PublitioAPI._api_payload / api_payload, with the timestamp and the nonce
\* it generated
api_payload(m, s, timestamp, nonce) ==
    LET four == [k \in AuthKeys |->
                    CASE k = "api_key" -> s.key
                      [] k = "api_timestamp" -> timestamp
                      [] k = "api_nonce" -> nonce
                      [] k = "api_signature" -> generate_signature(s, timestamp, nonce)]
    IN  IF m = "build" THEN Update(four, [k \in {"api_kit"} |-> ApiKit]) ELSE four

\* the merge with the auth map written over the caller's map
full_payload_auth_wins(auth, user_payload) == Update(user_payload, auth)

\* PublitioAPI._full_payload / full_payload; auth is what self._api_payload()
\* returned
full_payload(auth, user_payload) == Update(auth, user_payload)

----------------------------------------------------------------------------
(* Requests *)

Request(verb, base, params, data) ==
    [verb |-> verb, base |-> base, params |-> params, data |-> data]

\* _api_get / api_get
api_get(m, auth, payload) == Request("GET", "api", full_payload(auth, payload), EmptyMap)

\* _api_put / api_put: only "build" merges the caller's parameters into the
\* query; the other modules send them as form data
api_put(m, auth, payload) ==
    IF m = "build"
    THEN Request("PUT", "api", full_payload(auth, payload), EmptyMap)
    ELSE Request("PUT", "api", auth, payload)

\* _api_post / api_post (the uploaded file is left out)
api_post(m, auth, payload) == Request("POST", "api", full_payload(auth, payload), EmptyMap)

\* a DELETE sent without the auth payload
api_delete_unsigned(m, auth) == Request("DELETE", "api", EmptyMap, EmptyMap)

\* _api_delete / api_delete
api_delete(m, auth) == Request("DELETE", "api", auth, EmptyMap)

\* the request of transformed: requests.get(url)
transformed_request == Request("GET", "media", EmptyMap, EmptyMap)

RestOps == {"get", "put", "post", "delete"}

\* the request a REST operation hands to the HTTP library
RestCall(m, o, auth, payload) ==
    CASE o = "get" -> api_get(m, auth, payload)
      [] o = "put" -> api_put(m, auth, payload)
      [] o = "post" -> api_post(m, auth, payload)
      [] o = "delete" -> api_delete(m, auth)

----------------------------------------------------------------------------
(* Responses *)

\* status_code_is_known with the first range closed at 300
status_code_is_known_closed(status_code) ==
    \/ (200 <= status_code /\ status_code <= 300)
    \/ (400 <= status_code /\ status_code <= 406)
    \/ status_code \in {410, 422, 429, 500, 503}

\* status_code_is_known
status_code_is_known(status_code) ==
    \/ (200 <= status_code /\ status_code < 300)
    \/ (400 <= status_code /\ status_code <= 406)
    \/ status_code \in {410, 422, 429, 500, 503}

\* requests.Response.ok, as transformed reads it: raise_for_status() raises
\* for 400 <= status < 600 and for nothing else
ResponseOk(res) == ~(400 <= res.status_code /\ res.status_code < 600)

\* JSON values: a number or an array
NullVal == [type |-> "none", num |-> 0, items |-> <<>>]
NumVal(n) == [type |-> "num", num |-> n, items |-> <<>>]
ArrVal(items) == [type |-> "arr", num |-> 0, items |-> items]

IsDigit(c) == \E d \in 1..10 : DigitChars[d] = c
DigitOf(c) == (CHOOSE d \in 1..10 : DigitChars[d] = c) - 1

RECURSIVE SkipWs(_, _)
\* the first index >= i of s that holds no blank
SkipWs(s, i) == IF i <= Len(s) /\ s[i] = " " THEN SkipWs(s, i + 1) ELSE i

RECURSIVE DigitsEnd(_, _)
\* the first index >= i of s that holds no digit
DigitsEnd(s, i) == IF i <= Len(s) /\ IsDigit(s[i]) THEN DigitsEnd(s, i + 1) ELSE i

RECURSIVE IntOf(_)
\* the int written by a non-empty sequence of digits
IntOf(ds) == IF Len(ds) = 1 THEN DigitOf(ds[1])
             ELSE 10 * IntOf(SubSeq(ds, 1, Len(ds) - 1)) + DigitOf(ds[Len(ds)])

ParseFail == [ok |-> FALSE, val |-> NullVal, next |-> 0]
ParseOk(v, next) == [ok |-> TRUE, val |-> v, next |-> next]

RECURSIVE ParseValue(_, _)
RECURSIVE ParseElements(_, _, _)
\* a JSON value starting at index i: [ok, val, next index]
ParseValue(s, i) ==
    LET j == SkipWs(s, i)
    IN  IF j > Len(s) THEN ParseFail
        ELSE IF s[j] = "["
        THEN LET k == SkipWs(s, j + 1)
             IN  IF k <= Len(s) /\ s[k] = "]" THEN ParseOk(ArrVal(<<>>), k + 1)
                 ELSE ParseElements(s, k, <<>>)
        ELSE IF IsDigit(s[j])
        THEN LET e == IF s[j] = "0" THEN j + 1 ELSE DigitsEnd(s, j)
             IN  ParseOk(NumVal(IntOf(SubSeq(s, j, e - 1))), e)
        ELSE ParseFail

\* the elements of an array from index i on, up to its "]"
ParseElements(s, i, items) ==
    LET e == ParseValue(s, i)
    IN  IF ~e.ok THEN ParseFail
        ELSE LET k == SkipWs(s, e.next)
             IN  IF k > Len(s) THEN ParseFail
                 ELSE IF s[k] = "]" THEN ParseOk(ArrVal(Append(items, e.val)), k + 1)
                 ELSE IF s[k] = "," THEN ParseElements(s, k + 1, Append(items, e.val))
                 ELSE ParseFail

\* response.json(): the decoded body, or a decoding failure
JsonDecode(text) ==
    LET r == ParseValue(text, 1)
    IN  IF r.ok /\ SkipWs(text, r.next) > Len(text)
        THEN [ok |-> TRUE, val |-> r.val]
        ELSE [ok |-> FALSE, val |-> NullVal]

\* what a call returned or raised
Outcome(kind, code, text, value) ==
    [kind |-> kind, code |-> code, text |-> text, value |-> value]

NoOutcome == Outcome("none", 0, <<>>, NullVal)

\* check_status_code: TRUE when it raises UnknownStatusCode(status_code)
check_status_code(status_code) == ~status_code_is_known(status_code)

\* rest_request decoding the body before it looks at the status
rest_request_parse_first(m, res) ==
    LET d == JsonDecode(res.text)
    IN  IF ~d.ok
        THEN [outcome |-> Outcome("BadJSON", 0, res.text, NullVal), json_calls |-> 1]
        ELSE IF check_status_code(res.status_code)
        THEN [outcome |-> Outcome("UnknownStatusCode", res.status_code, <<>>, NullVal),
              json_calls |-> 1]
        ELSE [outcome |-> Outcome("json", 0, <<>>, d.val), json_calls |-> 1]

\* rest_request raising for every 4xx and 5xx, as raise_for_status would
rest_request_raise_for_status(m, res) ==
    IF check_status_code(res.status_code) \/ res.status_code >= 400
    THEN [outcome |-> Outcome("UnknownStatusCode", res.status_code, <<>>, NullVal),
          json_calls |-> 0]
    ELSE LET d == JsonDecode(res.text)
         IN  IF d.ok
             THEN [outcome |-> Outcome("json", 0, <<>>, d.val), json_calls |-> 1]
             ELSE [outcome |-> Outcome("BadJSON", 0, res.text, NullVal), json_calls |-> 1]

\* rest_request, from the response on: [outcome, json_calls].  "build" turns
\* a failure of res.json() into BadJSON(res.text); "pkg" lets the decoder's
\* own exception through.
rest_request(m, res) ==
    IF check_status_code(res.status_code)
    THEN [outcome |-> Outcome("UnknownStatusCode", res.status_code, <<>>, NullVal),
          json_calls |-> 0]
    ELSE LET d == JsonDecode(res.text)
         IN  IF d.ok
             THEN [outcome |-> Outcome("json", 0, <<>>, d.val), json_calls |-> 1]
             ELSE IF m = "build"
             THEN [outcome |-> Outcome("BadJSON", 0, res.text, NullVal), json_calls |-> 1]
             ELSE [outcome |-> Outcome("JSONDecodeError", 0, <<>>, NullVal),
                   json_calls |-> 1]

\* parse_response, the same in the three modules: on an unknown status it
\* raises the class UnknownStatusCode with no argument, and instantiating it
\* fails with TypeError (__init__ misses status_code); res.json() is not
\* guarded
parse_response(res) ==
    IF status_code_is_known(res.status_code)
    THEN LET d == JsonDecode(res.text)
         IN  IF d.ok
             THEN [outcome |-> Outcome("json", 0, <<>>, d.val), json_calls |-> 1]
             ELSE [outcome |-> Outcome("JSONDecodeError", 0, <<>>, NullVal),
                   json_calls |-> 1]
    ELSE [outcome |-> Outcome("TypeError", 0, <<>>, NullVal), json_calls |-> 0]

\* safe_request of the legacy module, from the response on: check_response
\* is defined nowhere, so the call ends with NameError before res.json()
safe_request(res) ==
    [outcome |-> Outcome("NameError", 0, <<>>, NullVal), json_calls |-> 0]

\* transformed raising with the body instead of the reason phrase
transformed_raises_text(res) ==
    IF ~ResponseOk(res)
    THEN [outcome |-> Outcome("TransformationFailed", 0, res.text, NullVal),
          json_calls |-> 0]
    ELSE [outcome |-> Outcome("content", 0, res.text, NullVal), json_calls |-> 0]

\* transformed, from the response on
transformed(res) ==
    IF ~ResponseOk(res)
    THEN [outcome |-> Outcome("TransformationFailed", 0, res.reason, NullVal),
          json_calls |-> 0]
    ELSE [outcome |-> Outcome("content", 0, res.text, NullVal), json_calls |-> 0]

----------------------------------------------------------------------------
(* Transformation URL *)

\* PublitioAPI._MEDIA_URL / MEDIA_URL
MEDIA_URL ==
    <<"h", "t", "t", "p", "s", ":", "/", "/", "m", "e", "d", "i", "a", ".",
      "p", "u", "b", "l", "i", "t", ".", "i", "o", "/">>

RECURSIVE RFind(_, _, _)
\* str.rfind(c) among the first i characters of p, counted from 1; 0 when
\* c is not there (Python's -1)
RFind(p, c, i) == IF i = 0 THEN 0 ELSE IF p[i] = c THEN i ELSE RFind(p, c, i - 1)

RECURSIVE SplitextDot(_, _, _)
\* genericpath._splitext's loop over the leading dots of the last path
\* component: the index of the dot that starts the extension, or 0 when
\* only dots stand between the separator and the last dot
SplitextDot(p, filenameIndex, dotIndex) ==
    IF filenameIndex >= dotIndex THEN 0
    ELSE IF p[filenameIndex] # "." THEN dotIndex
    ELSE SplitextDot(p, filenameIndex + 1, dotIndex)

\* os.path.splitext(p)[0] (posixpath)
SplitextRoot(p) ==
    LET sepIndex == RFind(p, "/", Len(p))
        dotIndex == RFind(p, ".", Len(p))
        cut == IF dotIndex > sepIndex THEN SplitextDot(p, sepIndex + 1, dotIndex) ELSE 0
    IN  IF cut > 0 THEN SubSeq(p, 1, cut - 1) ELSE p

\* the name cut at its last dot, wherever that dot stands
filename_without_extension_last_dot(filename) ==
    LET dotIndex == RFind(filename, ".", Len(filename))
    IN  IF dotIndex > 0 THEN SubSeq(filename, 1, dotIndex - 1) ELSE filename

\* filename_without_extension
filename_without_extension(filename) == SplitextRoot(filename)

\* an extension argument: None, or a string
NoneExt == [none |-> TRUE, text |-> <<>>]
Ext(text) == [none |-> FALSE, text |-> text]

\* '{}'.format(x) of an extension argument
FormatExt(e) == IF e.none THEN <<"N", "o", "n", "e">> ELSE e.text

\* replace_extension; only "build" returns the filename as it is for None
replace_extension(m, filename, new_extension) ==
    IF m = "build" /\ new_extension.none THEN filename
    ELSE filename_without_extension(filename) \o <<".">> \o FormatExt(new_extension)

\* an option value: an int or a string
IntOpt(n) == [int |-> TRUE, n |-> n, s |-> <<>>]
StrOpt(s) == [int |-> FALSE, n |-> 0, s |-> s]

\* '{}'.format(v) of an option value
FormatOpt(v) == IF v.int THEN Str(v.n) ELSE v.s

RECURSIVE Join(_, _)
\* sep.join(parts)
Join(sep, parts) ==
    IF parts = <<>> THEN <<>>
    ELSE IF Len(parts) = 1 THEN parts[1]
    ELSE parts[1] \o sep \o Join(sep, Tail(parts))

\* PublitioAPI._transformation_options / transformation_options; params is
\* the keyword dict in its iteration order, a sequence of [k, v]
transformation_options(params) ==
    Join(<<",">>, [i \in 1..Len(params) |->
                      params[i].k \o <<"_">> \o FormatOpt(params[i].v)])

\* the URL built with the options segment always closed by "/"
transformation_url_always_slash(m, filename, extension, params) ==
    MEDIA_URL \o <<"f", "i", "l", "e", "/">>
        \o transformation_options(params) \o <<"/">>
        \o replace_extension(m, filename, extension)

\* PublitioAPI._transformation_url / transformation_url
transformation_url(m, filename, extension, params) ==
    LET name == replace_extension(m, filename, extension)
        options == transformation_options(params)
        options_url == IF options # <<>> THEN options \o <<"/">> ELSE <<>>
    IN  MEDIA_URL \o <<"f", "i", "l", "e", "/">> \o options_url \o name

----------------------------------------------------------------------------
(* Inputs *)

Secrets == {<<"s", "k">>}

UserKeys == AuthKeys \cup {"limit"}
UserValues == {<<"7">>, <<"x">>}

\* the parameter maps a caller passes (None and {} are the same map here:
\* "payload or {}" makes them so)
UserPayloads ==
    UNION {[D -> UserValues] : D \in {S \in SUBSET UserKeys : Cardinality(S) <= MaxParams}}

StatusCodes == {199, 200, 299, 300, 304, 400, 404, 406, 407, 410, 500, 501,
                503, 599}

Reasons == {<<"Not Found">>, <<"Not Modified">>}

BodyChars == {"1", "[", "]", " "}
Bodies == UNION {[1..n -> BodyChars] : n \in 0..MaxBodyLen}

Responses == [status_code : StatusCodes, reason : Reasons, text : Bodies]

NoResponse == [status_code |-> 0, reason |-> <<>>, text |-> <<>>]

NoLocals == [payload |-> EmptyMap, auth |-> EmptyMap]

NameChars == {"a", ".", "/"}
Filenames == UNION {[1..n -> NameChars] : n \in 0..MaxNameLen}

Extensions == {NoneExt, Ext(<<"p", "n", "g">>)}

OptionKeys == {<<"w">>, <<"h">>, <<"c">>}
OptionValues == {IntOpt(300), StrOpt(<<"f", "i", "t">>), StrOpt(<<>>)}

\* keyword dicts in their iteration order: no key twice
OptionLists ==
    UNION {{ps \in [1..n -> [k : OptionKeys, v : OptionValues]] :
               \A i, j \in 1..n : i # j => ps[i].k # ps[j].k} : n \in 0..MaxOptions}

NoUrlCall ==
    [fn |-> "none", filename |-> <<>>, extension |-> NoneExt, options |-> <<>>,
     result |-> <<>>]

\* the operations of a client of module m
Ops(m) == IF m \in RestModules THEN RestOps \cup {"transformed"} ELSE RestOps

----------------------------------------------------------------------------
(* The client *)

\* a client right after PublitioAPI(key, secret)
InitClient ==
    /\ mod \in Modules
    /\ self \in [key : {<<"K">>}, secret : Secrets]
    /\ now = StartTime
    /\ pc = "idle"
    /\ op = "none"
    /\ locals = NoLocals
    /\ inflight = <<>>
    /\ nRequests = 0
    /\ response = NoResponse
    /\ jsonCalls = 0
    /\ outcome = NoOutcome
    /\ lastAuth = EmptyMap
    /\ probeKnown = "unasked"

Init ==
    /\ InitClient
    /\ probe = 0
    /\ urlCall = NoUrlCall

\* The clock advances.  The code reads it only when a signed call starts, so
\* a tick during a call is the same tick right after it: ticks are taken
\* between calls.
Tick ==
    /\ pc = "idle"
    /\ now < StartTime + MaxTicks
    /\ now' = now + 1
    /\ UNCHANGED <<mod, self, pc, op, locals, inflight, nRequests, response,
                   jsonCalls, outcome, lastAuth, probe, probeKnown, urlCall>>

\* A REST endpoint method runs up to the HTTP library's call: _api_payload
\* draws the timestamp and the nonce, the query is built, the request goes out.
CallRest(o, payload, nonce) ==
    /\ pc = "idle"
    /\ o \in RestOps
    /\ LET auth == api_payload(mod, self, current_unix_timestamp(now), nonce)
       IN  /\ locals' = [payload |-> payload, auth |-> auth]
           /\ inflight' = <<RestCall(mod, o, auth, payload)>>
    /\ op' = o
    /\ nRequests' = nRequests + 1
    /\ pc' = "waiting"
    /\ UNCHANGED <<mod, self, now, response, jsonCalls, outcome, lastAuth,
                   probe, probeKnown, urlCall>>

\* transformed runs up to requests.get(url)
CallTransformed ==
    /\ pc = "idle"
    /\ "transformed" \in Ops(mod)
    /\ locals' = NoLocals
    /\ inflight' = <<transformed_request>>
    /\ op' = "transformed"
    /\ nRequests' = nRequests + 1
    /\ pc' = "waiting"
    /\ UNCHANGED <<mod, self, now, response, jsonCalls, outcome, lastAuth,
                   probe, probeKnown, urlCall>>

\* the call ends: its frame is popped, its auth payload is the last one issued
EndCall(o) ==
    /\ pc' = "done"
    /\ inflight' = <<>>
    /\ locals' = NoLocals
    /\ lastAuth' = IF op = "transformed" THEN lastAuth ELSE locals.auth
    /\ outcome' = o.outcome
    /\ jsonCalls' = o.json_calls
    /\ UNCHANGED <<mod, self, now, op, nRequests, probe, probeKnown, urlCall>>

\* a response handler that sends the request again on an unknown status
RespondRetry(res) ==
    IF op # "transformed" /\ check_status_code(res.status_code)
    THEN /\ pc = "waiting"
         /\ inflight # <<>>
         /\ nRequests' = nRequests + 1
         /\ UNCHANGED <<mod, self, now, pc, op, locals, inflight, response, jsonCalls,
                        outcome, lastAuth, probe, probeKnown, urlCall>>
    ELSE /\ pc = "waiting"
         /\ inflight # <<>>
         /\ response' = res
         /\ EndCall(IF op = "transformed" THEN transformed(res)
                    ELSE IF mod = "legacy" THEN safe_request(res)
                    ELSE rest_request(mod, res))

\* The HTTP library returns the response and the call runs to its end.
Respond(res) ==
    /\ pc = "waiting"
    /\ inflight # <<>>
    /\ response' = res
    /\ EndCall(IF op = "transformed" THEN transformed(res)
               ELSE IF mod = "legacy" THEN safe_request(res)
               ELSE rest_request(mod, res))

\* The HTTP library raises (no connection, timeout): the exception passes
\* through the call unhandled.
TransportFails ==
    /\ pc = "waiting"
    /\ inflight # <<>>
    /\ response' = NoResponse
    /\ EndCall([outcome |-> Outcome("ConnectionError", 0, <<>>, NullVal),
                json_calls |-> 0])

\* The caller takes the result or the exception; the client is idle again.
Return ==
    /\ pc = "done"
    /\ pc' = "idle"
    /\ op' = "none"
    /\ nRequests' = 0
    /\ response' = NoResponse
    /\ jsonCalls' = 0
    /\ outcome' = NoOutcome
    /\ UNCHANGED <<mod, self, now, locals, inflight, lastAuth, probe, probeKnown, urlCall>>

\* Dispatch: every response of the bounds answers calls whose parameter map
\* is empty and whose nonce is the generator's first value.
DispatchPayloads == {EmptyMap}
DispatchNonces(m) == {Str(x) : x \in {y \in NonceInts(m) : \A z \in NonceInts(m) : y <= z}}

Next ==
    \/ Tick
    \/ \E o \in RestOps, payload \in DispatchPayloads, nonce \in DispatchNonces(mod) :
          CallRest(o, payload, nonce)
    \/ CallTransformed
    \/ \E res \in Responses : Respond(res)
    \/ TransportFails
    \/ Return

Spec == Init /\ [][Next]_vars

\* Signing: every parameter map and every nonce of the bounds, answered by a
\* few responses.
SignResponses ==
    {res \in Responses : /\ res.status_code \in {200, 407}
                         /\ res.text = <<"1">>
                         /\ \A r \in Reasons : Len(res.reason[1]) <= Len(r[1])}

NextSign ==
    \/ Tick
    \/ \E o \in RestOps, payload \in UserPayloads, nonce \in generate_nonce(mod) :
          CallRest(o, IF o = "delete" THEN EmptyMap ELSE payload, nonce)
    \/ CallTransformed
    \/ \E res \in SignResponses : Respond(res)
    \/ TransportFails
    \/ Return

SpecSign == Init /\ [][NextSign]_vars

\* parse_response(res) is called on a response and runs to its end
ParseResponse(res) ==
    /\ pc = "idle"
    /\ op' = "parse_response"
    /\ response' = res
    /\ outcome' = parse_response(res).outcome
    /\ jsonCalls' = parse_response(res).json_calls
    /\ pc' = "done"
    /\ UNCHANGED <<mod, self, now, locals, inflight, nRequests, lastAuth, probe,
                   probeKnown, urlCall>>

\* Dispatch, and parse_response called on its own.
NextParse ==
    \/ Tick
    \/ \E o \in RestOps, payload \in DispatchPayloads, nonce \in DispatchNonces(mod) :
          CallRest(o, payload, nonce)
    \/ CallTransformed
    \/ \E res \in Responses : Respond(res)
    \/ TransportFails
    \/ Return
    \/ \E res \in Responses : ParseResponse(res)

SpecParse == Init /\ [][NextParse]_vars

----------------------------------------------------------------------------
(* status_code_is_known on its own *)

ProbeCodes == 0 .. MaxStatusCode

InitStatus ==
    /\ InitClient
    /\ probe \in ProbeCodes
    /\ urlCall = NoUrlCall

\* status_code_is_known(probe) is evaluated
AskKnown ==
    /\ probeKnown = "unasked"
    /\ probeKnown' = IF status_code_is_known(probe) THEN "yes" ELSE "no"
    /\ UNCHANGED <<mod, self, now, pc, op, locals, inflight, nRequests, response,
                   jsonCalls, outcome, lastAuth, probe, urlCall>>

NextStatus == AskKnown

SpecStatus == InitStatus /\ [][NextStatus]_vars

----------------------------------------------------------------------------
(* replace_extension and _transformation_url on their own *)

InitUrl ==
    /\ InitClient
    /\ mod \in RestModules
    /\ probe = 0
    /\ urlCall \in [fn : {"none"}, filename : Filenames, extension : Extensions,
                    options : OptionLists, result : {<<>>}]

\* replace_extension(filename, extension) is evaluated
CallReplaceExtension ==
    /\ urlCall.fn = "none"
    /\ urlCall.options = <<>>
    /\ urlCall' = [urlCall EXCEPT
                      !.fn = "replace_extension",
                      !.result = replace_extension(mod, urlCall.filename, urlCall.extension)]
    /\ UNCHANGED <<mod, self, now, pc, op, locals, inflight, nRequests, response,
                   jsonCalls, outcome, lastAuth, probe, probeKnown>>

\* _transformation_url(filename, extension=extension, **options) is evaluated
CallTransformationUrl ==
    /\ urlCall.fn = "none"
    /\ urlCall' = [urlCall EXCEPT
                      !.fn = "transformation_url",
                      !.result = transformation_url(mod, urlCall.filename,
                                                    urlCall.extension, urlCall.options)]
    /\ UNCHANGED <<mod, self, now, pc, op, locals, inflight, nRequests, response,
                   jsonCalls, outcome, lastAuth, probe, probeKnown>>

NextUrl == CallReplaceExtension \/ CallTransformationUrl

SpecUrl == InitUrl /\ [][NextUrl]_vars

----------------------------------------------------------------------------
(* Properties *)

\* the request the running call has handed to the HTTP library
Sent == inflight[1]

\* a signed call is waiting for its response
SignedCallWaiting == pc = "waiting" /\ op \in RestOps /\ inflight # <<>>

\* the operations whose query is built by _full_payload / full_payload
UsesFullPayload(m, o) == o \in {"get", "post"} \/ (o = "put" /\ m = "build")

\* the signature sent is the digest of the timestamp and nonce sent and the
\* client's secret, and both were generated by this call
SignatureOfSent ==
    /\ Sent.params["api_signature"] =
          Sha1Hex(Sent.params["api_timestamp"] \o Sent.params["api_nonce"] \o self.secret)
    /\ Sent.params["api_timestamp"] = locals.auth["api_timestamp"]
    /\ Sent.params["api_nonce"] = locals.auth["api_nonce"]
    /\ locals.auth["api_timestamp"] = current_unix_timestamp(now)

\* C1, as stated: for every caller parameter map, also one that holds keys
\* named like the auth fields, the api_signature sent is
\* hex(sha1(T + N + secret)) for the api_timestamp T and api_nonce N sent in
\* the same request, both generated during the call.
C1_SignatureAnyPayload == SignedCallWaiting => SignatureOfSent

\* C1, amended: the same, for every caller parameter map that holds none of
\* the keys api_timestamp, api_nonce, api_signature.
C1_SignatureOfSent ==
    (SignedCallWaiting
        /\ (DOMAIN locals.payload) \cap {"api_timestamp", "api_nonce", "api_signature"} = {})
    => SignatureOfSent

\* a signed request is out whose caller overrides api_key
C1_Witness ==
    /\ SignedCallWaiting
    /\ op = "get"
    /\ DOMAIN locals.payload = {"api_key"}
    /\ Sent.params["api_key"] # self.key

\* C7: every request of a REST endpoint method carries api_key,
\* api_timestamp, api_nonce and api_signature in its query, whatever the
\* caller's parameters; the request of transformed carries none of them.
C7_AuthParamsOnEveryRestRequest ==
    \A i \in 1..Len(inflight) :
        /\ op \in RestOps => AuthKeys \subseteq DOMAIN inflight[i].params
        /\ op = "transformed" => AuthKeys \cap DOMAIN inflight[i].params = {}

\* a signed DELETE is out
C7_Witness ==
    /\ SignedCallWaiting
    /\ op = "delete"
    /\ AuthKeys \subseteq DOMAIN Sent.params

\* the keys of what _api_payload returns in module m
AuthPayloadKeys(m) == IF m = "build" THEN AuthKeys \cup {"api_kit"} ELSE AuthKeys

\* C8, as stated: the merged payload's key set is exactly the four auth keys
\* plus the caller's keys, and every caller key maps to the caller's value.
C8_ExactlyFourAuthKeys ==
    (SignedCallWaiting /\ UsesFullPayload(mod, op))
    => /\ DOMAIN Sent.params = AuthKeys \cup DOMAIN locals.payload
       /\ \A k \in DOMAIN locals.payload : Sent.params[k] = locals.payload[k]

\* C8, amended: the merged payload is the auth map of _api_payload (the four
\* auth keys, and api_kit as well in build/lib/publitio/__init__.py) overlaid
\* with the caller's map: its keys are the auth map's keys plus the caller's
\* keys, every caller key maps to the caller's value and every other key to
\* the auth map's value.
C8_AuthMapOverlaidWithCaller ==
    (SignedCallWaiting /\ UsesFullPayload(mod, op))
    => /\ DOMAIN Sent.params = AuthPayloadKeys(mod) \cup DOMAIN locals.payload
       /\ \A k \in DOMAIN locals.payload : Sent.params[k] = locals.payload[k]
       /\ \A k \in AuthPayloadKeys(mod) \ DOMAIN locals.payload :
             Sent.params[k] = locals.auth[k]

\* a merged payload in which the caller's api_signature collides with the
\* auth map's
C8_Witness ==
    /\ SignedCallWaiting
    /\ op = "post"
    /\ mod = "build"
    /\ "api_signature" \in DOMAIN locals.payload
    /\ "api_kit" \in DOMAIN Sent.params

\* C9, as stated: no two calls of _api_payload return the same api_nonce.
C9_NonceNeverReused ==
    (SignedCallWaiting /\ lastAuth # EmptyMap)
    => locals.auth["api_nonce"] # lastAuth["api_nonce"]

\* C9, amended: every call of _api_payload draws its nonce anew, the decimal
\* string of an 8-digit integer in 10000000..99999999, and stamps the clock's
\* value at the call; an earlier call's nonce is not excluded from the draw.
C9_NonceDrawnPerCall ==
    SignedCallWaiting
    => /\ Len(locals.auth["api_nonce"]) = 8
       /\ \A i \in 1..Len(locals.auth["api_nonce"]) : IsDigit(locals.auth["api_nonce"][i])
       /\ IntOf(locals.auth["api_nonce"]) \in NonceMin .. (NonceStopSecrets - 1)
       /\ locals.auth["api_timestamp"] = current_unix_timestamp(now)

\* a second signed call is out with the nonce of the call before it
C9_Witness ==
    /\ SignedCallWaiting
    /\ lastAuth # EmptyMap
    /\ locals.auth["api_nonce"] = lastAuth["api_nonce"]
    /\ locals.auth["api_timestamp"] # lastAuth["api_timestamp"]

\* the status codes the dispatcher knows
KnownStatusSet == (200..299) \cup (400..406) \cup {410, 422, 429, 500, 503}

\* a call through rest_request has ended on a response
RestRequestAnswered ==
    /\ pc = "done"
    /\ mod \in RestModules
    /\ op \in RestOps
    /\ response # NoResponse

\* C2: for every response whose status code is not known, rest_request fails
\* with UnknownStatusCode carrying that status code, and the body's JSON
\* decode is never invoked on that call.
C2_UnknownStatusBeforeParse ==
    (RestRequestAnswered /\ response.status_code \notin KnownStatusSet)
    => /\ outcome.kind = "UnknownStatusCode"
       /\ outcome.code = response.status_code
       /\ jsonCalls = 0

\* rest_request got a 407 whose body is well-formed JSON
C2_Witness ==
    /\ RestRequestAnswered
    /\ response.status_code = 407
    /\ JsonDecode(response.text).ok
    /\ outcome.kind = "UnknownStatusCode"

\* C3: for every response with a known status code whose body cannot be
\* decoded as JSON, rest_request, in each module that defines it, fails with
\* BadJSON carrying the raw response text.
C3_BadJSONForUndecodableBody ==
    (RestRequestAnswered
        /\ response.status_code \in KnownStatusSet
        /\ ~JsonDecode(response.text).ok)
    => /\ outcome.kind = "BadJSON"
       /\ outcome.text = response.text

\* C4: for every response with a known status code whose body is well-formed
\* JSON, rest_request returns the decoded value and raises nothing, whether
\* the status is a success or an error reported by the API.
C4_DecodedValueReturned ==
    (RestRequestAnswered
        /\ response.status_code \in KnownStatusSet
        /\ JsonDecode(response.text).ok)
    => /\ outcome.kind = "json"
       /\ outcome.value = JsonDecode(response.text).val
       /\ jsonCalls = 1

\* rest_request returned the array decoded from the body of a 404
C4_Witness ==
    /\ RestRequestAnswered
    /\ response.status_code = 404
    /\ response.text = <<"[", "]">>
    /\ outcome.kind = "json"
    /\ outcome.value = ArrVal(<<>>)

\* C5: status_code_is_known(s) is true exactly when 200 <= s < 300, or
\* 400 <= s <= 406, or s is one of 410, 422, 429, 500, 503.
C5_KnownExactlyTheListedCodes ==
    probeKnown # "unasked" => (probeKnown = "yes" <=> probe \in KnownStatusSet)

\* status_code_is_known answered false for 407
C5_Witness == probe = 407 /\ probeKnown = "no"

TransformedAnswered ==
    /\ pc = "done"
    /\ op = "transformed"
    /\ response # NoResponse

\* C10, as stated: transformed raises TransformationFailed carrying the
\* reason phrase for every response whose status is not 2xx, and returns the
\* raw content only for a 2xx response.
C10_FailsUnless2xx ==
    TransformedAnswered
    => IF response.status_code \in 200..299
       THEN outcome.kind = "content" /\ outcome.text = response.text
       ELSE outcome.kind = "TransformationFailed" /\ outcome.text = response.reason

\* C10, amended: transformed raises TransformationFailed carrying the reason
\* phrase for every response that is not OK, which is every status in
\* 400..599, and returns the raw content for every other response (2xx, and
\* 1xx and 3xx as well).
C10_FailsUnlessOk ==
    TransformedAnswered
    => IF response.status_code \in 400..599
       THEN outcome.kind = "TransformationFailed" /\ outcome.text = response.reason
       ELSE outcome.kind = "content" /\ outcome.text = response.text

\* transformed returned the content of a 304
C10_Witness ==
    /\ TransformedAnswered
    /\ response.status_code = 304
    /\ outcome.kind = "content"
    /\ Len(outcome.text) > 0

RECURSIVE RenderedFrom(_, _)
\* the entries of an option map from the i-th on, each as key_value, with a
\* comma between two neighbours
RenderedFrom(params, i) ==
    IF i > Len(params) THEN <<>>
    ELSE params[i].k \o <<"_">> \o FormatOpt(params[i].v)
            \o (IF i < Len(params) THEN <<",">> ELSE <<>>)
            \o RenderedFrom(params, i + 1)

\* the options segment S of a URL: nothing for the empty map, else the
\* rendered entries and one "/"
OptionsSegment(params) ==
    IF params = <<>> THEN <<>> ELSE RenderedFrom(params, 1) \o <<"/">>

UrlBuilt == urlCall.fn = "transformation_url"

ExtensionReplaced == urlCall.fn = "replace_extension" /\ ~urlCall.extension.none

\* the index of the last "." of f, 0 when f has none
LastDot(f) ==
    IF \E i \in 1..Len(f) : f[i] = "."
    THEN CHOOSE i \in 1..Len(f) : f[i] = "." /\ \A j \in (i + 1)..Len(f) : f[j] # "."
    ELSE 0

\* C12, as stated: replace_extension(f, e) is the part of f before its last
\* "." followed by "." and e, and f followed by "." and e when f has no ".",
\* for every f, also one that starts with "." or whose only "." lies before
\* a "/".
C12_SplitAtLastDot ==
    ExtensionReplaced
    => urlCall.result =
          (IF LastDot(urlCall.filename) > 0
           THEN SubSeq(urlCall.filename, 1, LastDot(urlCall.filename) - 1)
           ELSE urlCall.filename) \o <<".">> \o urlCall.extension.text

\* the last "." of f starts an extension: it stands in the last path
\* component (after the last "/") and some character of that component
\* before it is not a "."
DotStartsExtension(f) ==
    /\ LastDot(f) > 0
    /\ \A j \in LastDot(f)..Len(f) : f[j] # "/"
    /\ \E i \in 1..(LastDot(f) - 1) :
          /\ f[i] # "."
          /\ \A j \in i..LastDot(f) : f[j] # "/"

\* C12, amended: replace_extension(f, e) is the part of f before its last
\* "." followed by "." and e when that "." stands in the last path component
\* of f after a character of that component that is not a "."; otherwise
\* (no ".", only leading dots in the last component, last "." before a "/")
\* it is f followed by "." and e.
C12_SplitAtExtensionDot ==
    ExtensionReplaced
    => urlCall.result =
          (IF DotStartsExtension(urlCall.filename)
           THEN SubSeq(urlCall.filename, 1, LastDot(urlCall.filename) - 1)
           ELSE urlCall.filename) \o <<".">> \o urlCall.extension.text

\* the extension of a name that starts with "." was replaced: the name is kept
C12_Witness ==
    /\ ExtensionReplaced
    /\ urlCall.filename = <<".", "a">>
    /\ urlCall.result = <<".", "a", ".", "p", "n", "g">>

\* parse_response, or safe_request of the legacy module, has ended on a
\* response
OtherPathAnswered ==
    /\ pc = "done"
    /\ response # NoResponse
    /\ op = "parse_response" \/ (mod = "legacy" /\ op \in RestOps)

\* C13: parse_response (in each module) and safe_request (src/publitio.py)
\* fail with UnknownStatusCode carrying the status code when the status is
\* not known, and return the decoded JSON body when the status is known and
\* the body is well-formed JSON; no other failure type is raised.
C13_OtherPathsHonourStatusContract ==
    OtherPathAnswered
    => /\ response.status_code \notin KnownStatusSet
          => (outcome.kind = "UnknownStatusCode" /\ outcome.code = response.status_code)
       /\ (response.status_code \in KnownStatusSet /\ JsonDecode(response.text).ok)
          => (outcome.kind = "json" /\ outcome.value = JsonDecode(response.text).val)
       /\ outcome.kind \notin {"TypeError", "NameError"}

====
